---- MODULE Spec2Model ----
(***************************************************************************)
(* Model of the traffic-control (tc) message codec of netlink-packet-route *)
(* (src/netlink-packet-route/src/rtnl/tc).                                 *)
(*                                                                         *)
(* Buffers are sequences of bytes (0..255).  Offsets in the comments are   *)
(* the 0-based offsets of the Rust code; sequences are 1-based.            *)
(* 32-bit fields are kept as pairs <<high 16 bits, low 16 bits>> and the   *)
(* Stats records as their little-endian 16-bit limbs.                      *)
(* Strings are sequences of bytes.                                         *)
(***************************************************************************)
EXTENDS Integers, Sequences, FiniteSets, TLC

VARIABLES
    family,   \* the type parameter A of TcMessage<A>: "qdisc", "class", "filter"
    pc,       \* position of the caller: "build", "parsed", "emitted",
              \* "reparsed", "reemitted", "called"
    buf,      \* the byte buffer handed to TcMessage::parse
    wire,     \* the attributes written into buf so far, as <<tag, payload>> records
    cut,      \* number of bytes removed from the end of buf
    msg,      \* result of TcMessage::parse / TcMessage::from
    dest,     \* destination buffer before emit
    out,      \* destination buffer after emit
    touched,  \* indices (1-based) of out written by emit
    msg2,     \* result of parsing out again
    dest2,    \* second destination buffer before emit
    out2,     \* second destination buffer after emit
    resolved, \* result of a direct A::parse_with_param call
    built,    \* result of a direct Qdisc::new call
    dflt,     \* the TcMessage::default() call: status, recursion depth, value
    longrt    \* outcome of a parse, emit, parse of a buffer with a long attribute

vars ==
    <<family, pc, buf, wire, cut, msg, dest, out, touched, msg2, dest2, out2,
      resolved, built, dflt, longrt>>

----------------------------------------------------------------------------
(* Bounds of the model *)

MaxNlas == 2
MaxCut == 2
StackLimit == 3

----------------------------------------------------------------------------
(* Protocol constants *)

TC_HEADER_LEN == 20
NLA_HEADER_SIZE == 4
NLA_F_NESTED == 32768
U16 == 65536
STATS_LEN == 40
STATS_BASIC_LEN == 16
STATS_QUEUE_LEN == 20

TCA_UNSPEC == 0
TCA_KIND == 1
TCA_OPTIONS == 2
TCA_STATS == 3
TCA_XSTATS == 4
TCA_RATE == 5
TCA_FCNT == 6
TCA_STATS2 == 7
TCA_STAB == 8
TCA_CHAIN == 11
TCA_HW_OFFLOAD == 12

\* the tags Vec<Nla<A>>::parse has an arm for
KnownTags ==
    {TCA_UNSPEC, TCA_KIND, TCA_OPTIONS, TCA_STATS, TCA_XSTATS, TCA_RATE,
     TCA_FCNT, TCA_STATS2, TCA_STAB, TCA_CHAIN, TCA_HW_OFFLOAD}

TCA_STATS_BASIC == 1
TCA_STATS_QUEUE == 3

\* "ingress"
IngressKIND == <<105, 110, 103, 114, 101, 115, 115>>
\* "htb"
HTB_CLASS_KIND == <<104, 116, 98>>

\* a byte of the destination that emit does not write
Hole == 0 - 1

----------------------------------------------------------------------------
(* Byte-level helpers *)

Align4(n) == ((n + 3) \div 4) * 4

\* u16 at 0-based offset off, little-endian
LE16(b, off) == b[off + 1] + 256 * b[off + 2]

\* u32 at 0-based offset off, little-endian, as <<high half, low half>>
LE32(b, off) == <<LE16(b, off + 2), LE16(b, off)>>

Put16(v) == <<v % 256, (v \div 256) % 256>>

Put32(w) == Put16(w[2]) \o Put16(w[1])

Fill(n, v) == [i \in 1..n |-> v]

RECURSIVE Flatten(_)
Flatten(ss) == IF ss = <<>> THEN <<>> ELSE Head(ss) \o Flatten(Tail(ss))

RECURSIVE SumSeq(_)
SumSeq(s) == IF s = <<>> THEN 0 ELSE Head(s) + SumSeq(Tail(s))

----------------------------------------------------------------------------
(* Values *)

\* An attribute Nla<A>.  arm names the variant; tag is kept by the Other arm
\* only; val holds raw bytes, the string, the flag or the record's limbs;
\* opt names the variant of A held by Options; sub holds Stats2's entries.
MkNla(arm, tag, val, o, sub) ==
    [arm |-> arm, tag |-> tag, val |-> val, opt |-> o, sub |-> sub]

\* A Stats2 entry
MkStats2(arm, tag, val) == [arm |-> arm, tag |-> tag, val |-> val]

DefaultHeader ==
    [family |-> 0, index |-> <<0, 0>>, handle |-> <<0, 0>>,
     parent |-> <<0, 0>>, info |-> <<0, 0>>]

NoMsg == [st |-> "none", header |-> DefaultHeader, nlas |-> <<>>]

Failed(st) == [st |-> st, header |-> DefaultHeader, nlas |-> <<>>]

\* the 16-bit limbs of the first n bytes of a payload (n even)
Limbs(payload, n) == [i \in 1..(n \div 2) |-> LE16(payload, 2 * (i - 1))]

PutLimbs(ls) == Flatten([i \in 1..Len(ls) |-> Put16(ls[i])])

----------------------------------------------------------------------------
(* Bounded buffer views and the attribute iterator *)

\* NlaBuffer over b[pos .. pos+len): the type tag and the value
NlaBufferView(b, pos, len) ==
    IF pos + len > Len(b)
    THEN [st |-> "panic", tag |-> 0, value |-> <<>>]
    ELSE [st |-> "ok", tag |-> LE16(b, pos + 2),
          value |-> SubSeq(b, pos + NLA_HEADER_SIZE + 1, pos + len)]

ErrView == [st |-> "err", tag |-> 0, value |-> <<>>]

\* the check of one iterator step: the declared length is a valid one
NlaLengthOk(b, pos, len) == len >= NLA_HEADER_SIZE /\ pos + len <= Len(b)

\* NlasIterator: the views of the attributes of b from offset pos on; a
\* failed step yields an error and ends the iteration
RECURSIVE NlasIterator(_, _)
NlasIterator(b, pos) ==
    IF Len(b) - pos < NLA_HEADER_SIZE
    THEN <<>>
    ELSE LET len == LE16(b, pos) IN
         IF ~NlaLengthOk(b, pos, len)
         THEN <<ErrView>>
         ELSE <<NlaBufferView(b, pos, len)>> \o NlasIterator(b, pos + Align4(len))

\* NlaBuffer::kind: the type tag without the nested flag
NlaKind(view) == view.tag % NLA_F_NESTED

----------------------------------------------------------------------------
(* Field parsers *)

\* valid UTF-8, for the bytes the model uses: ASCII is valid and 255 occurs
\* in no valid sequence
Utf8Ok(s) == \A i \in 1..Len(s) : s[i] < 128

parse_string(payload) ==
    IF payload = <<>>
    THEN [st |-> "ok", s |-> <<>>]
    ELSE LET slice == IF payload[Len(payload)] = 0
                      THEN SubSeq(payload, 1, Len(payload) - 1)
                      ELSE payload
         IN  IF Utf8Ok(slice) THEN [st |-> "ok", s |-> slice]
                              ELSE [st |-> "err", s |-> <<>>]

parse_u8(payload) ==
    IF Len(payload) = 1 THEN [st |-> "ok", v |-> payload[1]]
                        ELSE [st |-> "err", v |-> 0]

\* StatsBuffer::new_checked + Stats::parse
StatsParse(payload) ==
    IF Len(payload) < STATS_LEN
    THEN [st |-> "err", v |-> <<>>]
    ELSE [st |-> "ok", v |-> Limbs(payload, STATS_LEN)]

\* Stats2::parse of one nested attribute
Stats2Parse(view) ==
    LET payload == view.value IN
    CASE NlaKind(view) = TCA_STATS_BASIC ->
            IF Len(payload) < STATS_BASIC_LEN
            THEN [st |-> "err", e |-> MkStats2("Other", 0, <<>>)]
            ELSE [st |-> "ok",
                  e |-> MkStats2("StatsBasic", 0, Limbs(payload, STATS_BASIC_LEN))]
      [] NlaKind(view) = TCA_STATS_QUEUE ->
            IF Len(payload) < STATS_QUEUE_LEN
            THEN [st |-> "err", e |-> MkStats2("Other", 0, <<>>)]
            ELSE [st |-> "ok",
                  e |-> MkStats2("StatsQueue", 0, Limbs(payload, STATS_QUEUE_LEN))]
      [] OTHER -> [st |-> "ok", e |-> MkStats2("Other", view.tag, payload)]

RECURSIVE Stats2Entries(_, _)
Stats2Entries(items, acc) ==
    IF items = <<>> THEN [st |-> "ok", sub |-> acc]
    ELSE LET it == Head(items) IN
         IF it.st # "ok" THEN [st |-> it.st, sub |-> <<>>]
         ELSE LET r == Stats2Parse(it) IN
              IF r.st # "ok" THEN [st |-> r.st, sub |-> <<>>]
              ELSE Stats2Entries(Tail(items), Append(acc, r.e))

----------------------------------------------------------------------------
(* Kind-parameterized Options *)

\* (mutant) a kind without an arm is an error
QdiscParseWithParam_Strict(payload, kind) ==
    IF kind = IngressKIND
    THEN [st |-> "ok", opt |-> "Ingress", val |-> <<>>]
    ELSE [st |-> "err", opt |-> "", val |-> <<>>]

QdiscParseWithParam(payload, kind) ==
    IF kind = IngressKIND
    THEN [st |-> "ok", opt |-> "Ingress", val |-> <<>>]
    ELSE [st |-> "ok", opt |-> "Other", val |-> payload]

ClassParseWithParam(payload, kind) ==
    [st |-> "ok", opt |-> "Other", val |-> payload]

FilterParseWithParam(payload, kind) ==
    [st |-> "ok", opt |-> "Other", val |-> payload]

\* A::parse_with_param for the type parameter A
ParseWithParam(fam, payload, kind) ==
    CASE fam = "qdisc" -> QdiscParseWithParam(payload, kind)
      [] fam = "class" -> ClassParseWithParam(payload, kind)
      [] OTHER -> FilterParseWithParam(payload, kind)

\* (mutant) a kind without an arm gives Other
QdiscNew_Fallback(kind) ==
    IF kind = IngressKIND
    THEN [st |-> "ok", opt |-> "Ingress", val |-> <<>>]
    ELSE [st |-> "ok", opt |-> "Other", val |-> <<>>]

\* Qdisc::new
QdiscNew(kind) ==
    IF kind = IngressKIND
    THEN [st |-> "ok", opt |-> "Ingress", val |-> <<>>]
    ELSE [st |-> "unimplemented", opt |-> "", val |-> <<>>]

----------------------------------------------------------------------------
(* Parsing a message *)

\* the arm of the match in Vec<Nla<A>>::parse for tag k: the attribute and
\* the kind string after it
ParseArm(k, fam, view, kind) ==
    LET payload == view.value
        Raw(arm) == [st |-> "ok", kind |-> kind,
                     nla |-> MkNla(arm, 0, payload, "", <<>>)]
        Err(st) == [st |-> st, kind |-> kind,
                    nla |-> MkNla("Unspec", 0, <<>>, "", <<>>)]
    IN
    CASE k = TCA_UNSPEC -> Raw("Unspec")
      [] k = TCA_KIND ->
            LET r == parse_string(payload) IN
            IF r.st # "ok" THEN Err(r.st)
            ELSE [st |-> "ok", kind |-> r.s,
                  nla |-> MkNla("Kind", 0, r.s, "", <<>>)]
      [] k = TCA_OPTIONS ->
            LET r == ParseWithParam(fam, payload, kind) IN
            IF r.st # "ok" THEN Err(r.st)
            ELSE [st |-> "ok", kind |-> kind,
                  nla |-> MkNla("Options", 0, r.val, r.opt, <<>>)]
      [] k = TCA_STATS ->
            LET r == StatsParse(payload) IN
            IF r.st # "ok" THEN Err(r.st)
            ELSE [st |-> "ok", kind |-> kind,
                  nla |-> MkNla("Stats", 0, r.v, "", <<>>)]
      [] k = TCA_XSTATS -> Raw("XStats")
      [] k = TCA_RATE -> Raw("Rate")
      [] k = TCA_FCNT -> Raw("Fcnt")
      [] k = TCA_STATS2 ->
            LET r == Stats2Entries(NlasIterator(payload, 0), <<>>) IN
            IF r.st # "ok" THEN Err(r.st)
            ELSE [st |-> "ok", kind |-> kind,
                  nla |-> MkNla("Stats2", 0, <<>>, "", r.sub)]
      [] k = TCA_STAB -> Raw("Stab")
      [] k = TCA_CHAIN -> Raw("Chain")
      [] k = TCA_HW_OFFLOAD ->
            LET r == parse_u8(payload) IN
            IF r.st # "ok" THEN Err(r.st)
            ELSE [st |-> "ok", kind |-> kind,
                  nla |-> MkNla("HwOffload", 0, <<r.v>>, "", <<>>)]
      [] OTHER ->
            [st |-> "ok", kind |-> kind,
             nla |-> MkNla("Other", view.tag, payload, "", <<>>)]

\* (mutant) every Options is resolved with an empty kind string
ParseNla_FreshKind(fam, view, kind) == ParseArm(NlaKind(view), fam, view, <<>>)

\* (mutant) an unknown tag is taken for Unspec
ParseNla_UnknownAsUnspec(fam, view, kind) ==
    ParseArm(IF NlaKind(view) \in KnownTags THEN NlaKind(view) ELSE TCA_UNSPEC,
             fam, view, kind)

\* the body of the loop: match buf.kind() { ... }
ParseNla(fam, view, kind) == ParseArm(NlaKind(view), fam, view, kind)

\* (mutant) an item the iterator failed on is skipped
RECURSIVE ParseNlaItems_SkipErr(_, _, _, _)
ParseNlaItems_SkipErr(fam, items, kind, acc) ==
    IF items = <<>> THEN [st |-> "ok", nlas |-> acc]
    ELSE LET it == Head(items) IN
         IF it.st # "ok" THEN ParseNlaItems_SkipErr(fam, Tail(items), kind, acc)
         ELSE LET r == ParseNla(fam, it, kind) IN
              IF r.st # "ok" THEN [st |-> r.st, nlas |-> <<>>]
              ELSE ParseNlaItems_SkipErr(fam, Tail(items), r.kind, Append(acc, r.nla))

\* the loop of Vec<Nla<A>>::parse over the iterator's items
RECURSIVE ParseNlaItems(_, _, _, _)
ParseNlaItems(fam, items, kind, acc) ==
    IF items = <<>> THEN [st |-> "ok", nlas |-> acc]
    ELSE LET it == Head(items) IN
         IF it.st # "ok" THEN [st |-> it.st, nlas |-> <<>>]
         ELSE LET r == ParseNla(fam, it, kind) IN
              IF r.st # "ok" THEN [st |-> r.st, nlas |-> <<>>]
              ELSE ParseNlaItems(fam, Tail(items), r.kind, Append(acc, r.nla))

\* Vec<Nla<A>>::parse: kind starts empty
NlasParse(fam, b) ==
    ParseNlaItems(fam, NlasIterator(SubSeq(b, TC_HEADER_LEN + 1, Len(b)), 0),
                  <<>>, <<>>)

\* TcHeader::parse
HeaderParse(b) ==
    [family |-> b[1], index |-> LE32(b, 4), handle |-> LE32(b, 8),
     parent |-> LE32(b, 12), info |-> LE32(b, 16)]

\* TcMessageBuffer::new_checked followed by TcMessage::parse
MessageParse(fam, b) ==
    IF Len(b) < TC_HEADER_LEN THEN Failed("err")
    ELSE LET r == NlasParse(fam, b) IN
         IF r.st # "ok" THEN Failed(r.st)
         ELSE [st |-> "ok", header |-> HeaderParse(b), nlas |-> r.nlas]

\* TcMessage::from(index)
FromIndex(index) ==
    [st |-> "ok", header |-> [DefaultHeader EXCEPT !.index = index], nlas |-> <<>>]

----------------------------------------------------------------------------
(* Emission *)

\* Nla::kind of an attribute
KindOf(n) ==
    CASE n.arm = "Unspec" -> TCA_UNSPEC
      [] n.arm = "Kind" -> TCA_KIND
      [] n.arm = "Options" -> TCA_OPTIONS
      [] n.arm = "Stats" -> TCA_STATS
      [] n.arm = "XStats" -> TCA_XSTATS
      [] n.arm = "Rate" -> TCA_RATE
      [] n.arm = "Fcnt" -> TCA_FCNT
      [] n.arm = "Stats2" -> TCA_STATS2
      [] n.arm = "Stab" -> TCA_STAB
      [] n.arm = "Chain" -> TCA_CHAIN
      [] n.arm = "HwOffload" -> TCA_HW_OFFLOAD
      [] OTHER -> n.tag

\* value_len of the Options value (Qdisc, Class, Filter)
OptValueLen(n) == IF n.opt = "Ingress" THEN 0 ELSE Len(n.val)

\* emit_value of the Options value
OptEmitValue(n) == IF n.opt = "Ingress" THEN <<>> ELSE n.val

Stats2KindOf(e) ==
    CASE e.arm = "StatsBasic" -> TCA_STATS_BASIC
      [] e.arm = "StatsQueue" -> TCA_STATS_QUEUE
      [] OTHER -> e.tag

Stats2ValueLen(e) ==
    CASE e.arm = "StatsBasic" -> STATS_BASIC_LEN
      [] e.arm = "StatsQueue" -> STATS_QUEUE_LEN
      [] OTHER -> Len(e.val)

Stats2EmitValue(e) == IF e.arm = "Other" THEN e.val ELSE PutLimbs(e.val)

\* the cells one attribute writes into its slice of buffer_len bytes: the
\* length, the type, the value; the padding is left as it was (Hole)
NlaCells(kind, vlen, value) ==
    Put16((vlen + NLA_HEADER_SIZE) % U16) \o Put16(kind) \o value
        \o Fill(Align4(vlen) - vlen, Hole)

Stats2BufferLen(e) == Align4(Stats2ValueLen(e)) + NLA_HEADER_SIZE

Stats2Cells(e) == NlaCells(Stats2KindOf(e), Stats2ValueLen(e), Stats2EmitValue(e))

\* Nla::value_len
ValueLen(n) ==
    CASE n.arm = "Kind" -> Len(n.val) + 1
      [] n.arm = "Options" -> OptValueLen(n)
      [] n.arm = "Stats" -> STATS_LEN
      [] n.arm = "Stats2" ->
            SumSeq([i \in 1..Len(n.sub) |-> Stats2BufferLen(n.sub[i])])
      [] n.arm = "HwOffload" -> 1
      [] OTHER -> Len(n.val)

\* Nla::emit_value
EmitValue(n) ==
    CASE n.arm = "Kind" -> n.val \o <<0>>
      [] n.arm = "Options" -> OptEmitValue(n)
      [] n.arm = "Stats" -> PutLimbs(n.val)
      [] n.arm = "Stats2" -> Flatten([i \in 1..Len(n.sub) |-> Stats2Cells(n.sub[i])])
      [] OTHER -> n.val

\* Emitable::buffer_len of one attribute
NlaBufferLen(n) == Align4(ValueLen(n)) + NLA_HEADER_SIZE

\* Emitable::emit of one attribute
NlaEmit(n) == NlaCells(KindOf(n), ValueLen(n), EmitValue(n))

\* Emitable for &[T]: buffer_len and emit
NlasBufferLen(nlas) == SumSeq([i \in 1..Len(nlas) |-> NlaBufferLen(nlas[i])])

NlasEmit(nlas) == Flatten([i \in 1..Len(nlas) |-> NlaEmit(nlas[i])])

\* (mutant) handle and parent change places
HeaderEmit_Swapped(h) ==
    <<h.family, Hole, Hole, Hole>> \o Put32(h.index) \o Put32(h.parent)
        \o Put32(h.handle) \o Put32(h.info)

\* (mutant) info is not written
HeaderEmit_NoInfo(h) ==
    <<h.family, Hole, Hole, Hole>> \o Put32(h.index) \o Put32(h.handle)
        \o Put32(h.parent) \o Fill(4, Hole)

\* TcHeader::emit: family, index, handle, parent, info; the three bytes
\* after family are not written
HeaderEmit(h) ==
    <<h.family, Hole, Hole, Hole>> \o Put32(h.index) \o Put32(h.handle)
        \o Put32(h.parent) \o Put32(h.info)

\* (mutant) the header is left out
BufferLen_NoHeader(m) == NlasBufferLen(m.nlas)

\* TcMessage::buffer_len
BufferLen(m) == TC_HEADER_LEN + NlasBufferLen(m.nlas)

\* TcMessage::emit: the cells written, header first
MessageEmit(m) == HeaderEmit(m.header) \o NlasEmit(m.nlas)

\* the destination after the cells are written over it
Written(cells, d) ==
    [i \in 1..Len(d) |-> IF i <= Len(cells) /\ cells[i] # Hole THEN cells[i] ELSE d[i]]

Touched(cells) == {i \in 1..Len(cells) : cells[i] # Hole}

----------------------------------------------------------------------------
(* Inputs *)

\* header of the reference ingress packet: index 84, handle 0xFFFF0000,
\* parent 0xFFFFFFF1, info 1
IngressHeaderBytes ==
    <<0, 0, 0, 0, 84, 0, 0, 0, 0, 0, 255, 255, 241, 255, 255, 255, 1, 0, 0, 0>>

HeaderBytes == {Fill(TC_HEADER_LEN, 0), IngressHeaderBytes}

Families == {"qdisc", "class", "filter"}

W(tag, payload) == [tag |-> tag, payload |-> payload]

\* one attribute on the wire: length, type, value, zero padding
Encode(a) ==
    Put16(Len(a.payload) + NLA_HEADER_SIZE) \o Put16(a.tag) \o a.payload
        \o Fill(Align4(Len(a.payload)) - Len(a.payload), 0)

\* payloads of Stats2: Basic and Queue records, an unknown entry whose
\* padding is missing, an entry declared longer than the payload, a Basic
\* record that is too short
Stats2Payloads ==
    { Encode(W(TCA_STATS_BASIC, Fill(STATS_BASIC_LEN, 0)))
         \o Encode(W(TCA_STATS_QUEUE, <<1, 2>> \o Fill(STATS_QUEUE_LEN - 2, 0))),
      Encode(W(NLA_F_NESTED + 9, <<6, 6, 6, 6>>)) \o <<5, 0, 9, 0, 7>>,
      <<8, 0, 1, 0, 1, 2>>,
      Encode(W(TCA_STATS_BASIC, <<1, 2, 3, 4>>)) }

\* the attributes the caller writes into the buffer
WireNlas ==
    { W(TCA_KIND, IngressKIND \o <<0>>), W(TCA_KIND, IngressKIND),
      W(TCA_KIND, HTB_CLASS_KIND), W(TCA_KIND, <<255, 0>>),
      W(TCA_OPTIONS, <<>>), W(TCA_OPTIONS, <<1, 2, 3, 4, 5>>),
      W(TCA_UNSPEC, <<7>>), W(TCA_XSTATS, <<1, 2>>), W(TCA_RATE, <<3>>),
      W(TCA_FCNT, <<>>), W(TCA_STAB, <<4, 5, 6>>), W(TCA_CHAIN, <<1, 0, 0, 0>>),
      W(TCA_HW_OFFLOAD, <<1>>), W(TCA_HW_OFFLOAD, <<1, 2>>),
      W(TCA_STATS, <<9, 1>> \o Fill(STATS_LEN + 2, 0)),
      W(TCA_STATS, Fill(STATS_LEN - 1, 0)),
      W(13, <<9, 9, 9>>), W(NLA_F_NESTED + 13, <<>>),
      W(NLA_F_NESTED + TCA_KIND, HTB_CLASS_KIND) }
    \cup { W(TCA_STATS2, p) : p \in Stats2Payloads }

\* the attributes that are followed by further ones in the buffers the
\* caller builds; every attribute of WireNlas occurs as the last one
InnerNlas ==
    { W(TCA_KIND, IngressKIND \o <<0>>), W(TCA_KIND, HTB_CLASS_KIND),
      W(TCA_OPTIONS, <<1, 2, 3, 4, 5>>), W(13, <<9, 9, 9>>),
      W(TCA_STATS, <<9, 1>> \o Fill(STATS_LEN + 2, 0)),
      W(TCA_STATS2, Encode(W(NLA_F_NESTED + 9, <<6, 6, 6, 6>>)) \o <<5, 0, 9, 0, 7>>) }

\* attributes of the greatest length the 16-bit length field can declare
\* (65535): a Kind whose value ends with NUL, a Kind whose value does not,
\* and an unknown attribute
LongNlas ==
    { W(TCA_KIND, Fill(U16 - 2 - NLA_HEADER_SIZE, 97) \o <<0>>),
      W(TCA_KIND, Fill(U16 - 1 - NLA_HEADER_SIZE, 97)),
      W(13, Fill(U16 - 1 - NLA_HEADER_SIZE, 97)) }

\* kind strings and payloads of the direct calls
KindStrings == {<<>>, IngressKIND, HTB_CLASS_KIND, IngressKIND \o <<0>>}

Payloads == {<<>>, <<1>>, <<1, 2, 3, 4, 5>>}

Indexes == {<<0, 0>>, <<0, 84>>, <<65535, 65535>>}

Fillers == {0, 170}

\* bytes the destination is longer than buffer_len()
Extras == {0, 1}

----------------------------------------------------------------------------
(* The caller *)

Init ==
    /\ family \in Families
    /\ buf \in HeaderBytes
    /\ pc = "build"
    /\ wire = <<>>
    /\ cut = 0
    /\ msg = NoMsg
    /\ dest = <<>>
    /\ out = <<>>
    /\ touched = {}
    /\ msg2 = NoMsg
    /\ dest2 = <<>>
    /\ out2 = <<>>
    /\ resolved = [st |-> "none", opt |-> "", val |-> <<>>, kind |-> <<>>, payload |-> <<>>]
    /\ built = [st |-> "none", opt |-> "", val |-> <<>>, kind |-> <<>>]
    /\ dflt = [st |-> "idle", depth |-> 0, value |-> NoMsg]
    /\ longrt = [parsed |-> "none", tag |-> 0, len |-> 0, last |-> 0,
                 emitted |-> 0, reparsed |-> "none", same |-> FALSE]

\* the caller writes one more attribute into the buffer
AppendNla ==
    /\ pc = "build" /\ cut = 0 /\ Len(wire) < MaxNlas
    /\ wire # <<>> => wire[Len(wire)] \in InnerNlas
    /\ \E a \in WireNlas :
          /\ buf' = buf \o Encode(a)
          /\ wire' = Append(wire, a)
    /\ UNCHANGED <<family, pc, cut, msg, dest, out, touched, msg2, dest2, out2, resolved, built, dflt, longrt>>

\* the buffer is cut short
Truncate ==
    /\ pc = "build" /\ cut = 0
    /\ \E k \in 1..MaxCut :
          /\ buf' = SubSeq(buf, 1, Len(buf) - k)
          /\ cut' = k
    /\ UNCHANGED <<family, pc, wire, msg, dest, out, touched, msg2, dest2, out2, resolved, built, dflt, longrt>>

\* TcMessage::<A>::parse(&TcMessageBuffer::new_checked(&buf)?)
Parse ==
    /\ pc = "build"
    /\ msg' = MessageParse(family, buf)
    /\ pc' = "parsed"
    /\ UNCHANGED <<family, buf, wire, cut, dest, out, touched, msg2, dest2, out2, resolved, built, dflt, longrt>>

\* TcMessage::from(index)
From ==
    /\ pc = "build" /\ wire = <<>> /\ cut = 0
    /\ \E i \in Indexes : msg' = FromIndex(i)
    /\ pc' = "parsed"
    /\ UNCHANGED <<family, buf, wire, cut, dest, out, touched, msg2, dest2, out2, resolved, built, dflt, longrt>>

\* msg.emit(&mut dest) with dest at least msg.buffer_len() long, for a
\* message built or parsed from a whole buffer
Emit ==
    /\ pc = "parsed" /\ msg.st = "ok" /\ cut = 0
    /\ \E f \in Fillers, extra \in Extras :
          /\ dest' = Fill(BufferLen(msg) + extra, f)
          /\ out' = Written(MessageEmit(msg), dest')
    /\ touched' = Touched(MessageEmit(msg))
    /\ pc' = "emitted"
    /\ UNCHANGED <<family, buf, wire, cut, msg, msg2, dest2, out2, resolved, built, dflt, longrt>>

\* the emitted buffer of buffer_len() bytes is parsed again
Reparse ==
    /\ pc = "emitted" /\ Len(out) = BufferLen(msg)
    /\ msg2' = MessageParse(family, out)
    /\ pc' = "reparsed"
    /\ UNCHANGED <<family, buf, wire, cut, msg, dest, out, touched, dest2, out2,
                   resolved, built, dflt, longrt>>

\* the same message is emitted once more, into a second buffer of
\* buffer_len() bytes
Reemit ==
    /\ pc = "emitted" /\ Len(out) = BufferLen(msg)
    /\ \E f \in Fillers :
          /\ dest2' = Fill(BufferLen(msg), f)
          /\ out2' = Written(MessageEmit(msg), dest2')
    /\ pc' = "reemitted"
    /\ UNCHANGED <<family, buf, wire, cut, msg, dest, out, touched, msg2,
                   resolved, built, dflt, longrt>>

\* A::parse_with_param(&nla_buffer, kind)
Resolve ==
    /\ pc = "build" /\ wire = <<>> /\ cut = 0
    /\ \E k \in KindStrings, p \in Payloads :
          resolved' = [st |-> ParseWithParam(family, p, k).st,
                       opt |-> ParseWithParam(family, p, k).opt,
                       val |-> ParseWithParam(family, p, k).val,
                       kind |-> k, payload |-> p]
    /\ pc' = "called"
    /\ UNCHANGED <<family, buf, wire, cut, msg, dest, out, touched, msg2, dest2, out2, built, dflt, longrt>>

\* Qdisc::new(kind)
NewQdisc ==
    /\ pc = "build" /\ wire = <<>> /\ cut = 0
    /\ \E k \in KindStrings :
          built' = [st |-> QdiscNew(k).st, opt |-> QdiscNew(k).opt,
                    val |-> QdiscNew(k).val, kind |-> k]
    /\ pc' = "called"
    /\ UNCHANGED <<family, buf, wire, cut, msg, dest, out, touched, msg2, dest2, out2, resolved, dflt, longrt>>

\* a buffer holding one long attribute is parsed, the message is emitted
\* into a zeroed buffer of buffer_len() bytes, and that buffer is parsed
RoundTripLong ==
    /\ pc = "build" /\ wire = <<>> /\ cut = 0
    /\ \E a \in LongNlas :
          LET m == MessageParse(family, buf \o Encode(a))
              o == Written(MessageEmit(m), Fill(BufferLen(m), 0))
              m2 == MessageParse(family, o)
          IN  longrt' = [parsed |-> m.st, tag |-> a.tag, len |-> Len(a.payload),
                         last |-> a.payload[Len(a.payload)],
                         emitted |-> IF m.st = "ok" THEN LE16(o, TC_HEADER_LEN) ELSE 0,
                         reparsed |-> IF m.st = "ok" THEN m2.st ELSE "none",
                         same |-> m.st = "ok" /\ m2 = m]
    /\ pc' = "called"
    /\ UNCHANGED <<family, buf, wire, cut, msg, dest, out, touched, msg2, dest2, out2,
                   resolved, built, dflt>>

\* TcMessage::default() is called
DefaultCall ==
    /\ pc = "build" /\ wire = <<>> /\ cut = 0
    /\ dflt' = [dflt EXCEPT !.st = "running", !.depth = 1]
    /\ pc' = "called"
    /\ UNCHANGED <<family, buf, wire, cut, msg, dest, out, touched, msg2, dest2, out2, resolved, built, longrt>>

\* the body of default() evaluates the base expression `..Default::default()`
\* of type TcMessage<A>: a call of default() itself, before anything is built
DefaultRecurse ==
    /\ dflt.st = "running" /\ dflt.depth < StackLimit
    /\ dflt' = [dflt EXCEPT !.depth = dflt.depth + 1]
    /\ UNCHANGED <<family, pc, buf, wire, cut, msg, dest, out, touched, msg2, dest2, out2, resolved, built, longrt>>

\* no frame is left for the next call
DefaultOverflow ==
    /\ dflt.st = "running" /\ dflt.depth = StackLimit
    /\ dflt' = [dflt EXCEPT !.st = "overflow"]
    /\ UNCHANGED <<family, pc, buf, wire, cut, msg, dest, out, touched, msg2, dest2, out2, resolved, built, longrt>>

Next ==
    \/ AppendNla
    \/ Truncate
    \/ Parse
    \/ From
    \/ Emit
    \/ Reparse
    \/ Reemit
    \/ RoundTripLong
    \/ Resolve
    \/ NewQdisc
    \/ DefaultCall
    \/ DefaultRecurse
    \/ DefaultOverflow

Spec == Init /\ [][Next]_vars

----------------------------------------------------------------------------
(* Properties *)

Parsed == pc # "build" /\ pc # "called" /\ msg.st # "none"

Emitted == pc \in {"emitted", "reparsed", "reemitted"}

\* the buffer holds exactly the attributes of wire, each whole
Whole == cut = 0 /\ wire # <<>>

\* the string of the latest Kind attribute among the first i attributes
RECURSIVE LastKind(_, _)
LastKind(nlas, i) ==
    IF i = 0 THEN <<>>
    ELSE IF nlas[i].arm = "Kind" THEN nlas[i].val ELSE LastKind(nlas, i - 1)

\* value_len as the length claim states it
ClaimValueLen(n) ==
    IF n.arm = "Options"
    THEN (IF n.opt = "Ingress" THEN 0 ELSE Len(n.val))
    ELSE ValueLen(n)

\* offset of attribute i in the emitted buffer
EmitOffset(nlas, i) ==
    TC_HEADER_LEN
      + SumSeq([j \in 1..(i - 1) |-> Align4(NLA_HEADER_SIZE + ClaimValueLen(nlas[j]))])

\* offset of attribute i in the parsed buffer
WireOffset(i) == TC_HEADER_LEN + SumSeq([j \in 1..(i - 1) |-> Len(Encode(wire[j]))])

\* first 36 bytes of the reference ingress packet
IngressPacket36 ==
    IngressHeaderBytes
       \o <<12, 0, 1, 0, 105, 110, 103, 114, 101, 115, 115, 0>> \o <<4, 0, 2, 0>>

IngressHeader ==
    [family |-> 0, index |-> <<0, 84>>, handle |-> <<65535, 0>>,
     parent |-> <<65535, 65521>>, info |-> <<0, 1>>]

KindIngress == MkNla("Kind", 0, IngressKIND, "", <<>>)

OptionsIngress == MkNla("Options", 0, <<>>, "Ingress", <<>>)

\* C1: a message emitted into a buffer of buffer_len() bytes and parsed
\* again parses successfully to an equal message (header and attributes).
C1_RoundTrip ==
    /\ pc = "reparsed" => (msg2.st = "ok" /\ msg2 = msg)
    /\ longrt.parsed = "ok" => (longrt.reparsed = "ok" /\ longrt.same)

C3_UnknownTag ==
    (Parsed /\ Whole) =>
        /\ msg.st # "ok" => \E i \in 1..Len(wire) : wire[i].tag % NLA_F_NESTED \in KnownTags
        /\ msg.st = "ok" =>
              \A i \in 1..Len(wire) :
                 wire[i].tag % NLA_F_NESTED \notin KnownTags =>
                    /\ msg.nlas[i] = MkNla("Other", wire[i].tag, wire[i].payload, "", <<>>)
                    /\ Emitted =>
                          LET n == NLA_HEADER_SIZE + Len(wire[i].payload)
                              o == EmitOffset(msg.nlas, i)
                              w == WireOffset(i)
                          IN  SubSeq(out, o + 1, o + n) = SubSeq(buf, w + 1, w + n)

C3_Witness ==
    /\ Emitted /\ Whole /\ msg.st = "ok" /\ Len(wire) = 2
    /\ wire[1].tag = TCA_KIND /\ wire[2].tag = NLA_F_NESTED + 13
    /\ dest[1] # 0

\* C4: parse_with_param of Qdisc, Class and Filter always returns a value:
\* Other(payload) unless the type is Qdisc and the kind is "ingress".
C4_ResolverTotal ==
    resolved.st # "none" =>
        /\ resolved.st = "ok"
        /\ ~(family = "qdisc" /\ resolved.kind = IngressKIND) =>
              (resolved.opt = "Other" /\ resolved.val = resolved.payload)

C4_Witness ==
    /\ resolved.st = "ok" /\ family = "class" /\ resolved.kind = IngressKIND
    /\ resolved.opt = "Other" /\ resolved.payload # <<>>

\* C5: Qdisc::new returns Ingress for "ingress" and is unimplemented for
\* every other kind; it never returns Other, and it accepts exactly the
\* kinds parse_with_param gives an arm other than Other.
C5_StrictNew ==
    built.st # "none" =>
        /\ built.kind = IngressKIND => (built.st = "ok" /\ built.opt = "Ingress")
        /\ built.kind # IngressKIND => built.st = "unimplemented"
        /\ built.opt # "Other"
        /\ built.st = "ok" <=>
              \A p \in Payloads : QdiscParseWithParam(p, built.kind).opt # "Other"

C5_Witness == built.st = "unimplemented" /\ built.kind = HTB_CLASS_KIND

\* the buffer ends before the declared end of its last attribute
Truncated ==
    /\ cut > 0 /\ wire # <<>>
    /\ Len(buf) < WireOffset(Len(wire)) + NLA_HEADER_SIZE + Len(wire[Len(wire)].payload)

\* C6 as stated: parsing a buffer that ends before the declared end of an
\* attribute returns an error, and parsing never reads outside the buffer.
C6_BoundsRejection ==
    Parsed => /\ msg.st # "panic"
              /\ Truncated => msg.st = "err"

\* C6, amended: the error is returned when the buffer still holds the four
\* bytes of the truncated attribute's header; also for a Stats2 entry
\* declared longer than the Stats2 payload.  Parsing never reads outside
\* the buffer.
C6_BoundsRejectionHeaderPresent ==
    Parsed =>
        /\ msg.st # "panic" /\ msg2.st # "panic"
        /\ (Truncated /\ Len(buf) >= WireOffset(Len(wire)) + NLA_HEADER_SIZE)
              => msg.st = "err"
        /\ (cut = 0 /\ \E i \in 1..Len(wire) : wire[i] = W(TCA_STATS2, <<8, 0, 1, 0, 1, 2>>))
              => msg.st = "err"

C6_Witness ==
    /\ Parsed /\ Truncated /\ msg.st = "err" /\ Len(wire) = 2
    /\ wire[1] = W(TCA_KIND, IngressKIND \o <<0>>)
    /\ Len(buf) >= WireOffset(2) + NLA_HEADER_SIZE

\* C7: buffer_len() is 20 plus the sum over the attributes of
\* align_up(4 + value_len, 4); 36 for Kind("ingress"), Options(Ingress).
C7_BufferLen ==
    (Parsed /\ msg.st = "ok") =>
        /\ BufferLen(msg) =
              20 + SumSeq([i \in 1..Len(msg.nlas) |->
                              Align4(4 + ClaimValueLen(msg.nlas[i]))])
        /\ msg.nlas = <<KindIngress, OptionsIngress>> => BufferLen(msg) = 36

C7_Witness ==
    /\ Parsed /\ msg.st = "ok" /\ Len(msg.nlas) = 2
    /\ msg.nlas[1].arm = "Options" /\ msg.nlas[1].opt = "Other" /\ Len(msg.nlas[1].val) = 5
    /\ msg.nlas[2].arm = "Stats2" /\ Len(msg.nlas[2].sub) = 2
    /\ BufferLen(msg) = 20 + 12 + 20

\* header and attribute layout of an emitted buffer
EmitLayout ==
    /\ Len(out) = Len(dest)
    /\ out[1] = msg.header.family
    /\ SubSeq(out, 5, 20) =
          <<msg.header.index[2] % 256, msg.header.index[2] \div 256,
            msg.header.index[1] % 256, msg.header.index[1] \div 256,
            msg.header.handle[2] % 256, msg.header.handle[2] \div 256,
            msg.header.handle[1] % 256, msg.header.handle[1] \div 256,
            msg.header.parent[2] % 256, msg.header.parent[2] \div 256,
            msg.header.parent[1] % 256, msg.header.parent[1] \div 256,
            msg.header.info[2] % 256, msg.header.info[2] \div 256,
            msg.header.info[1] % 256, msg.header.info[1] \div 256>>
    /\ \A i \in 1..Len(msg.nlas) :
          LET o == EmitOffset(msg.nlas, i)
              n == msg.nlas[i]
          IN  /\ LE16(out, o) = (NLA_HEADER_SIZE + ClaimValueLen(n)) % U16
              /\ LE16(out, o + 2) = KindOf(n)
              /\ n.arm \in {"Unspec", "XStats", "Rate", "Fcnt", "Stab", "Chain", "Other"}
                    => SubSeq(out, o + 5, o + 4 + Len(n.val)) = n.val
              /\ n.arm = "Kind"
                    => SubSeq(out, o + 5, o + 5 + Len(n.val)) = n.val \o <<0>>
    /\ \A i \in 1..Len(out) : i > BufferLen(msg) => out[i] = dest[i]
    /\ \A i \in touched : i <= BufferLen(msg)

\* C8 as stated: emit into a buffer of at least buffer_len() bytes writes
\* the header fields into bytes [0,20) and each attribute at 20 plus the
\* padded lengths of those before it, and nothing at or after buffer_len();
\* the ingress header with Kind("ingress"), Options(Ingress) gives the
\* first 36 bytes of the reference packet.
C8_EmitLayout ==
    Emitted =>
        /\ EmitLayout
        /\ (msg.header = IngressHeader /\ msg.nlas = <<KindIngress, OptionsIngress>>)
              => SubSeq(out, 1, 36) = IngressPacket36

\* C8, amended: the same, the reference bytes being the output for a
\* destination that was zero before.
C8_EmitLayoutZeroed ==
    Emitted =>
        /\ EmitLayout
        /\ (msg.header = IngressHeader /\ msg.nlas = <<KindIngress, OptionsIngress>>
              /\ \A i \in 1..Len(dest) : dest[i] = 0)
              => SubSeq(out, 1, 36) = IngressPacket36

C8_Witness ==
    /\ Emitted /\ msg.header = IngressHeader /\ msg.nlas = <<KindIngress, OptionsIngress>>
    /\ Len(dest) = 37 /\ dest[1] = 0 /\ SubSeq(out, 1, 36) = IngressPacket36

\* the padding bytes of an attribute stream emitted at offset o
RECURSIVE Stats2Padding(_, _)
Stats2Padding(sub, o) ==
    IF sub = <<>> THEN {}
    ELSE LET v == Stats2ValueLen(Head(sub)) IN
         ((o + NLA_HEADER_SIZE + v + 1)..(o + NLA_HEADER_SIZE + Align4(v)))
            \cup Stats2Padding(Tail(sub), o + NLA_HEADER_SIZE + Align4(v))

RECURSIVE NlasPadding(_, _)
NlasPadding(nlas, o) ==
    IF nlas = <<>> THEN {}
    ELSE LET v == ClaimValueLen(Head(nlas)) IN
         ((o + NLA_HEADER_SIZE + v + 1)..(o + NLA_HEADER_SIZE + Align4(v)))
            \cup (IF Head(nlas).arm = "Stats2"
                  THEN Stats2Padding(Head(nlas).sub, o + NLA_HEADER_SIZE) ELSE {})
            \cup NlasPadding(Tail(nlas), o + NLA_HEADER_SIZE + Align4(v))

\* indices (1-based) of the three reserved header bytes
Reserved == {2, 3, 4}

\* C9 as stated: two emissions of one message into buffers of buffer_len()
\* bytes give the same bytes.
C9_SameBytes == pc = "reemitted" => out2 = out

\* C9, amended: the two outputs agree on every byte but the three reserved
\* header bytes, which keep what each destination held, and the padding
\* after attribute values; they are equal when the destinations agree.
C9_SameWrittenBytes ==
    pc = "reemitted" =>
        /\ Len(out) = BufferLen(msg) /\ Len(out2) = BufferLen(msg)
        /\ \A i \in Reserved : out[i] = dest[i] /\ out2[i] = dest2[i]
        /\ \A i \in 1..BufferLen(msg) :
              i \notin Reserved \cup NlasPadding(msg.nlas, TC_HEADER_LEN)
                 => out[i] = out2[i]
        /\ dest2 = dest => out2 = out

C9_Witness ==
    /\ pc = "reemitted" /\ dest[1] # dest2[1] /\ Len(msg.nlas) = 2
    /\ msg.nlas[1].arm = "Stats2" /\ Len(msg.nlas[1].sub) = 2
    /\ out[2] # out2[2] /\ out[5] = out2[5]

\* C10: a call of TcMessage::default() that is over has returned the
\* message TcMessage::from(0): default header, no attributes.
C10_DefaultReturns ==
    dflt.st \in {"idle", "running"}
       \/ (dflt.st = "returned" /\ dflt.value = FromIndex(<<0, 0>>))

====
